---- MODULE Spec2Model ----
(***************************************************************************)
(* CERBERUS: the tool-selection supervisor of suite.py (class Suite) and   *)
(* the knowledge-graph ingestion of threatmap.py (class ThreatMap).        *)
(*                                                                         *)
(* The Suite part follows one call of Suite.suite() or Suite.supervisor()  *)
(* from entry to its return or raise.  The ThreatMap part keeps the        *)
(* property graph held by the store and applies the Cypher statements of   *)
(* ThreatMap.create_relationship to it.                                    *)
(***************************************************************************)
EXTENDS Integers, Sequences, FiniteSets, TLC

VARIABLES
    \* ---- Suite (suite.py) ----
    list_of_tools,  \* self.list_of_tools: configured tool_list + ["FINISH"]
    pc,             \* "idle" | "returned" | "raised": where the call stands
    entry,          \* "none" | "suite" | "supervisor": the method that was called
    state,          \* the state object handed to supervisor()
    tool_res,       \* what Head(...).head() / update_rag did in this call
    rag,            \* truth value of self.vectorstore in this call
    pol_raises,     \* the selection call raised
    pol_ret,        \* the value the selection call returned
    tool_calls,     \* number of agent.head() invocations made by the call
    pol_calls,      \* number of selection calls made by the call
    used_tools,     \* local used_tools of supervisor()
    new_results,    \* local new_results of supervisor()
    next_tool,      \* local next_tool of supervisor()
    err,            \* exception that left the call ("none" when it returned)
    new_state,      \* the AgentState returned by the call
    parser_raises,  \* the chain of ParserHead raises on the aggregate of run()
    run_log,        \* the calls run() has made, in their order
    \* ---- ThreatMap (threatmap.py) and the graph store behind it ----
    nodes,          \* the store's nodes in creation order: [label, props]
    edges,          \* the store's relationships: [type, from, to, props]
    now,            \* the clock read by datetime.now() / datetime()
    surfaces,       \* whether a failed statement raises out of session.run
    work,           \* add_entity calls made plus the entries they carried
    last_rec,       \* the record of the latest add_entity call
    repeated,       \* the latest call had the same record as the one before
    raised,         \* exception that left the latest ThreatMap call
    schema_mapping, \* self.schema_mapping, as load_schema read it
    constraints,    \* the store's uniqueness constraints: [name, label, props]
    indexes,        \* the store's relationship indexes: [id, type, prop]
    budget,         \* how much work the ThreatMap calls may add up to
    op,             \* the latest ThreatMap call: its method and arguments
    calls,          \* the create_relationship calls the latest call made
    returned,       \* the value the latest ThreatMap call returned
    vocab           \* which scan records the callers of add_entity hold

suiteVars == <<list_of_tools, pc, entry, state, tool_res, rag, pol_raises, pol_ret,
               tool_calls, pol_calls, used_tools, new_results, next_tool, err,
               new_state, parser_raises, run_log>>

mapVars == <<nodes, edges, now, surfaces, work, last_rec, repeated, raised,
             schema_mapping, constraints, indexes, budget, op, calls, returned,
             vocab>>

vars == <<suiteVars, mapVars>>

-----------------------------------------------------------------------------
(* Bounds and input domains                                                *)

MaxTools == 2       \* longest configured tool_list
MaxUsed == 2        \* longest used_tools of a state handed to supervisor()

ToolNames == {"nmap", "nikto", "sqlmap"}

Range(s) == {s[i] : i \in DOMAIN s}

\* sequences over S without repetition, of length at most n
RECURSIVE DistinctSeqs(_, _)
DistinctSeqs(S, n) ==
    IF n = 0 THEN {<<>>}
    ELSE LET shorter == DistinctSeqs(S, n - 1)
             longer == {Append(q, x) : q \in shorter, x \in S}
         IN  shorter \cup {q \in longer : Cardinality(Range(q)) = Len(q)}

\* Suite_config.tool_list values the configuration may hold
ToolLists == DistinctSeqs(ToolNames, MaxTools)

\* what the selection call (qa_chain.run / llm.invoke) may hand back
PolicyReturns == ToolNames \cup {"FINISH", "supervisor", "garbage"}

\* the text a tool run returns, kept symbolic
Output(t) == <<"output of", t>>

-----------------------------------------------------------------------------
(* _template.py: AgentState                                                *)

\* the dataclass fields; the generated __init__ takes exactly these keywords
AgentStateFields == {"prompt", "results", "current", "next"}

\* AgentState(**kwargs) returns an object iff the keywords are the fields;
\* any other keyword raises TypeError
AgentStateInit(kwargs) ==
    kwargs \subseteq AgentStateFields /\ AgentStateFields \subseteq kwargs

\* the keywords supervisor() and suite() pass to AgentState(...)
StateKwargs == {"prompt", "results", "used_tools", "current", "next"}

NoState == [made |-> FALSE, results |-> <<>>, used_tools |-> <<>>,
            current |-> "none", next |-> "none"]

MkState(res, used, cur, nxt) ==
    [made |-> TRUE, results |-> res, used_tools |-> used, current |-> cur, next |-> nxt]

\* state objects a caller can hand to supervisor(): the attributes it reads are
\* prompt, results, current and used_tools; has_used says whether the object
\* carries a used_tools attribute (an AgentState instance does not)
InputStates ==
    {[has_used |-> h, used_tools |-> u,
      results |-> [i \in DOMAIN u |-> Output(u[i])], current |-> c] :
        h \in BOOLEAN,
        u \in DistinctSeqs(ToolNames, MaxUsed),
        c \in ToolNames \cup {"supervisor"}}

NoInput == [has_used |-> FALSE, used_tools |-> <<>>, results |-> <<>>, current |-> "none"]

-----------------------------------------------------------------------------
(* suite.py: Suite.supervisor                                              *)

\* lines 149-150 and 172-173: a value outside the list or already used is FINISH
CoerceMutant(ret, tools, used) ==
    IF ret \notin Range(tools) THEN "FINISH" ELSE ret

Coerce(ret, tools, used) ==
    IF ret \notin Range(tools) \/ ret \in Range(used) THEN "FINISH" ELSE ret

\* lines 118-183: the next tool computed by the selection part of the step
SelectNext(isRag, raises, ret, tools, used, cur) ==
    LET picked == IF raises THEN "FINISH" ELSE Coerce(ret, tools, used)
    IN  IF isRag THEN picked
        ELSE IF picked = cur THEN "FINISH" ELSE picked

\* lines 95-116: how the first part of the step ends
\*   "ToolError"      Head(...).head() raised; logged and re-raised
\*   "AttributeError" state.used_tools is read from an object without it
\*   "RagError"       update_rag(result) raised; logged and re-raised
\*   "none"           new_results and used_tools are set
StepOneErrMutant(s, res) ==
    IF ~s.has_used THEN "AttributeError" ELSE "none"

StepOneErr(s, res) ==
    IF s.current # "supervisor" /\ res = "head_fails" THEN "ToolError"
    ELSE IF ~s.has_used THEN "AttributeError"
    ELSE IF s.current # "supervisor" /\ res = "rag_fails" THEN "RagError"
    ELSE "none"

UsedAfterMutant(s) == s.used_tools

\* lines 105 and 116: the used_tools the selection is given, the state's own with
\* the tool the step has just run appended
UsedAfter(s) ==
    IF s.current # "supervisor" THEN Append(s.used_tools, s.current)
    ELSE s.used_tools

Supervisor(s, res, isRag, raises, ret) ==
    /\ pc = "idle"
    /\ LET ranTool == s.current # "supervisor"
           e1 == StepOneErr(s, res)
           used == UsedAfter(s)
           results == IF ranTool THEN Append(s.results, Output(s.current))
                      ELSE s.results
           nxt == SelectNext(isRag, raises, ret, list_of_tools, used, s.current)
           built == AgentStateInit(StateKwargs)
       IN  /\ entry' = "supervisor"
           /\ state' = s
           /\ tool_res' = IF ranTool THEN res ELSE "not_run"
           /\ tool_calls' = IF ranTool THEN 1 ELSE 0
           /\ IF e1 # "none"
              THEN /\ pc' = "raised"
                   /\ err' = e1
                   /\ UNCHANGED <<rag, pol_raises, pol_ret, pol_calls, used_tools,
                                  new_results, next_tool, new_state>>
              ELSE /\ rag' = isRag
                   /\ pol_raises' = raises
                   /\ pol_ret' = IF raises THEN "none" ELSE ret
                   /\ pol_calls' = 1
                   /\ used_tools' = used
                   /\ new_results' = results
                   /\ next_tool' = nxt
                   /\ IF built
                      THEN /\ pc' = "returned"
                           /\ err' = "none"
                           /\ new_state' = MkState(results, used, nxt, nxt)
                      ELSE /\ pc' = "raised"
                           /\ err' = "TypeError"
                           /\ UNCHANGED new_state
    /\ UNCHANGED <<list_of_tools, parser_raises, run_log>>
    /\ UNCHANGED mapVars

\* a caller invokes supervisor(state) on the Suite object
SupervisorCall ==
    \E s \in InputStates, res \in {"ok", "head_fails", "rag_fails"},
       isRag \in BOOLEAN, raises \in BOOLEAN, ret \in PolicyReturns :
        Supervisor(s, res, isRag, raises, ret)

-----------------------------------------------------------------------------
(* suite.py: Suite.suite                                                   *)

\* lines 229-252: build the workflow, build the initial AgentState, then hand it
\* to workflow.invoke.  The initial state is built outside the try block.
SuiteCall ==
    /\ pc = "idle"
    /\ entry' = "suite"
    /\ IF AgentStateInit(StateKwargs)
       THEN /\ pc' = "seeded"
            /\ err' = "none"
            /\ new_state' = MkState(<<>>, <<>>, "supervisor", "supervisor")
       ELSE /\ pc' = "raised"
            /\ err' = "TypeError"
            /\ UNCHANGED new_state
    /\ UNCHANGED <<list_of_tools, state, tool_res, rag, pol_raises, pol_ret,
                   tool_calls, pol_calls, used_tools, new_results, next_tool,
                   parser_raises, run_log>>
    /\ UNCHANGED mapVars

-----------------------------------------------------------------------------
(* threatmap.py: the schema read by load_schema                            *)
(* The schema file is configuration.  FullSchema is the one the comments   *)
(* of get_kg_data document: key constraints per label, the four            *)
(* relationship types and their default properties.  The other two are     *)
(* schema files that declare less, or more.                                *)

FullSchema ==
    ("Host" :> [constraints |-> {"name"},
                relationships |->
                    ("IPAddress" :> [type |-> "RESOLVES_TO",
                                     default_props |-> [resolution_type |-> "A"],
                                     index_prop |-> "last_seen"])]) @@
    ("IPAddress" :> [constraints |-> {"address"},
                     relationships |->
                         ("Port" :> [type |-> "HOSTS",
                                     default_props |-> [status |-> "open"],
                                     index_prop |-> "last_seen"])]) @@
    ("Port" :> [constraints |-> {},
                relationships |->
                    ("Service" :> [type |-> "RUNS",
                                   default_props |-> [status |-> "running"],
                                   index_prop |-> "last_seen"])]) @@
    ("Service" :> [constraints |-> {"name", "version"},
                   relationships |->
                       ("Vulnerability" :> [type |-> "HAS_VULNERABILITY",
                                            default_props |-> <<>>,
                                            index_prop |-> "detection_time"])]) @@
    ("Vulnerability" :> [constraints |-> {"description", "cve_id"},
                         relationships |-> <<>>])

\* a schema file without the Host entry
NoHostSchema == [l \in DOMAIN FullSchema \ {"Host"} |-> FullSchema[l]]

\* a schema file with one more label, whose relationship has the type and the
\* index property of Host's, and default properties that name a time stamp
DomainSchema ==
    FullSchema @@
    ("Domain" :> [constraints |-> {"name"},
                  relationships |->
                      ("IPAddress" :> [type |-> "RESOLVES_TO",
                                       default_props |-> [resolution_type |-> "CNAME",
                                                          last_seen |-> 99],
                                       index_prop |-> "last_seen"])])

Schemas == {FullSchema, NoHostSchema, DomainSchema}

\* a schema file whose relationships have no default properties
BareSchema ==
    [l \in DOMAIN FullSchema |->
        [FullSchema[l] EXCEPT !.relationships =
            [t \in DOMAIN FullSchema[l].relationships |->
                [FullSchema[l].relationships[t] EXCEPT !.default_props = <<>>]]]]

SchemaLabels == DOMAIN schema_mapping

\* schema_mapping[label]["constraints"] as a set of property names
Constraints(label) ==
    IF label \in SchemaLabels THEN schema_mapping[label].constraints ELSE {}

\* the keys of schema_mapping[label]["relationships"]
Relationships(label) ==
    IF label \in SchemaLabels THEN DOMAIN schema_mapping[label].relationships ELSE {}

\* schema_mapping[from]["relationships"][to]: type, default_props, index_prop
RelInfo(from, to) == schema_mapping[from].relationships[to]

-----------------------------------------------------------------------------
(* The graph store: how it runs the statements create_relationship sends   *)

Ids(ns) == DOMAIN ns

\* a node pattern (n:label {props}) matches a node of that label whose
\* properties include every property of the pattern with the same value
Matches(n, label, props) ==
    /\ n.label = label
    /\ \A k \in DOMAIN props : k \in DOMAIN n.props /\ n.props[k] = props[k]

Matching(ns, label, props) == {i \in Ids(ns) : Matches(ns[i], label, props)}

\* creating the node would break a uniqueness constraint of the store on its
\* label: a constraint covers the nodes that carry every property of its key
Violates(ns, label, props) ==
    \E c \in constraints :
        /\ c.label = label
        /\ c.props \subseteq DOMAIN props
        /\ \E i \in Ids(ns) :
              /\ ns[i].label = label
              /\ c.props \subseteq DOMAIN ns[i].props
              /\ \A k \in c.props : ns[i].props[k] = props[k]

\* MERGE (n:label {props}): bind the matching nodes, or create one
MergeNode(ns, label, props) ==
    LET found == Matching(ns, label, props)
    IN  IF found # {} THEN [ok |-> TRUE, nodes |-> ns, ids |-> found]
        ELSE IF Violates(ns, label, props)
             THEN [ok |-> FALSE, nodes |-> ns, ids |-> {}]
             ELSE [ok |-> TRUE,
                   nodes |-> Append(ns, [label |-> label, props |-> props]),
                   ids |-> {Len(ns) + 1}]

HasEdge(es, type, a, b) == \E e \in es : e.type = type /\ e.from = a /\ e.to = b

\* MERGE (a)-[r:type]->(b) ON CREATE SET r = $props, for every bound pair
MergeEdgesMutant(es, type, as, bs, props) ==
    es \cup {[type |-> type, from |-> ab[1], to |-> ab[2], props |-> props] :
                ab \in as \X bs}

MergeEdges(es, type, as, bs, props) ==
    es \cup {[type |-> type, from |-> a, to |-> b, props |-> props] :
                <<a, b>> \in {ab \in as \X bs : ~HasEdge(es, type, ab[1], ab[2])}}

\* the statement of the else branch (to_type is not Port), lines 112-117
RunGeneric(g, from_type, from_props, to_type, to_props, rel_type, props) ==
    LET a == MergeNode(g.nodes, from_type, from_props)
        b == MergeNode(a.nodes, to_type, to_props)
    IN  IF ~a.ok \/ ~b.ok THEN [ok |-> FALSE, nodes |-> g.nodes, edges |-> g.edges]
        ELSE [ok |-> TRUE, nodes |-> b.nodes,
              edges |-> MergeEdges(g.edges, rel_type, a.ids, b.ids, props)]

\* ON MATCH SET of the Port statement, line 109
OnMatchPortMutant(e, props, t) ==
    [e EXCEPT !.props = props]

OnMatchPort(e, props, t) ==
    [e EXCEPT !.props = [e.props EXCEPT !["last_seen"] = t]]

\* a variant whose ON MATCH leaves the matched Port node as it was
RunPortForMutant(g, a, to_type, to_props, rel_type, props, t) ==
    LET hit == {e \in g.edges :
                   /\ e.type = rel_type
                   /\ e.from = a
                   /\ Matches(g.nodes[e.to], to_type, [number |-> to_props.number])}
    IN  IF hit # {}
        THEN [nodes |-> g.nodes,
              edges |-> (g.edges \ hit) \cup {OnMatchPort(e, props, t) : e \in hit}]
        ELSE [nodes |-> Append(g.nodes, [label |-> to_type, props |-> to_props]),
              edges |-> g.edges \cup {[type |-> rel_type, from |-> a,
                                       to |-> Len(g.nodes) + 1, props |-> props]}]

\* the statement of the Port branch, lines 105-110, for one bound node a:
\* MERGE (a)-[r]->(b:Port {number}) matches the Port nodes of that number that
\* a already points to, and creates node and relationship when there is none
RunPortFor(g, a, to_type, to_props, rel_type, props, t) ==
    LET hit == {e \in g.edges :
                   /\ e.type = rel_type
                   /\ e.from = a
                   /\ Matches(g.nodes[e.to], to_type, [number |-> to_props.number])}
    IN  IF hit # {}
        THEN [nodes |-> [i \in Ids(g.nodes) |->
                            IF \E e \in hit : e.to = i
                            THEN [label |-> to_type, props |-> to_props]
                            ELSE g.nodes[i]],
              edges |-> (g.edges \ hit) \cup {OnMatchPort(e, props, t) : e \in hit}]
        ELSE [nodes |-> Append(g.nodes, [label |-> to_type, props |-> to_props]),
              edges |-> g.edges \cup {[type |-> rel_type, from |-> a,
                                       to |-> Len(g.nodes) + 1, props |-> props]}]

RECURSIVE RunPortAll(_, _, _, _, _, _, _)
RunPortAll(g, as, to_type, to_props, rel_type, props, t) ==
    IF as = {} THEN g
    ELSE LET a == CHOOSE x \in as : \A y \in as : x <= y
         IN  RunPortAll(RunPortFor(g, a, to_type, to_props, rel_type, props, t),
                        as \ {a}, to_type, to_props, rel_type, props, t)

\* MATCH (a:from_type {from_props}) binds the existing nodes only
RunPort(g, from_type, from_props, to_type, to_props, rel_type, props, t) ==
    LET r == RunPortAll([nodes |-> g.nodes, edges |-> g.edges],
                        Matching(g.nodes, from_type, from_props),
                        to_type, to_props, rel_type, props, t)
    IN  [ok |-> TRUE, nodes |-> r.nodes, edges |-> r.edges]

-----------------------------------------------------------------------------
(* threatmap.py: ThreatMap.create_relationship and ThreatMap.add_entity    *)

\* dict.update: the entries of u are written over those of d
Update(d, u) ==
    [k \in DOMAIN d \cup DOMAIN u |-> IF k \in DOMAIN u THEN u[k] ELSE d[k]]

\* lines 94-101: default_props, then properties, then the two time stamps;
\* properties is <<>> when the caller passes none
EdgePropsMutant(rel_info, properties, t) ==
    Update(Update([created_at |-> t, last_seen |-> t], properties),
           rel_info.default_props)

EdgeProps(rel_info, properties, t) ==
    Update(Update(rel_info.default_props, properties),
           [created_at |-> t, last_seen |-> t])

\* a variant that updates rel_info["default_props"] itself
DefaultPropsAfterMutant(default_props, props) == props

\* line 94: props is a copy, so the update calls of lines 95-101 leave the
\* dict rel_info["default_props"] of the schema with the entries it had
DefaultPropsAfter(default_props, props) == default_props

\* lines 91-120: the properties, the statement, and its run in a session of
\* its own; g = [nodes, edges, now, raised, calls, schema], the clock is read
\* once
RunQuery(g, from_type, from_props, to_type, to_props, properties, surf) ==
    LET rel_info == RelInfo(from_type, to_type)
        props == EdgeProps(rel_info, properties, g.now)
        r == IF to_type = "Port"
             THEN RunPort(g, from_type, from_props, to_type, to_props,
                          rel_info.type, props, g.now)
             ELSE RunGeneric(g, from_type, from_props, to_type, to_props,
                             rel_info.type, props)
    IN  [g EXCEPT !.nodes = r.nodes, !.edges = r.edges, !.now = g.now + 1,
                  !.raised = IF ~r.ok /\ surf THEN "StoreError" ELSE "none",
                  !.schema[from_type].relationships[to_type].default_props =
                      DefaultPropsAfter(rel_info.default_props, props)]

\* a variant that looks up the target only after it has merged the from node
create_relationshipMutant(g, from_type, from_props, to_type, to_props, properties, surf) ==
    IF from_type \notin SchemaLabels
    THEN [g EXCEPT !.raised = "ValueError"]
    ELSE IF to_type \notin Relationships(from_type)
         THEN [g EXCEPT !.nodes = MergeNode(g.nodes, from_type, from_props).nodes,
                        !.raised = "ValueError"]
         ELSE RunQuery(g, from_type, from_props, to_type, to_props, properties, surf)

create_relationship(g, from_type, from_props, to_type, to_props, properties, surf) ==
    IF from_type \notin SchemaLabels \/ to_type \notin Relationships(from_type)
    THEN [g EXCEPT !.raised = "ValueError"]
    ELSE RunQuery(g, from_type, from_props, to_type, to_props, properties, surf)

\* the arguments of one create_relationship call, as g.calls keeps them
Call(from_type, from_props, to_type, to_props, properties) ==
    [from_type |-> from_type, from_props |-> from_props,
     to_type |-> to_type, to_props |-> to_props, properties |-> properties]

\* a call add_entity makes only while no earlier call has raised; add_entity
\* passes no properties
Upsert(g, from_type, from_props, to_type, to_props, surf) ==
    IF g.raised # "none" THEN g
    ELSE LET r == create_relationship(g, from_type, from_props,
                                      to_type, to_props, <<>>, surf)
         IN  [r EXCEPT !.calls = Append(g.calls, Call(from_type, from_props,
                                                      to_type, to_props, <<>>))]

\* lines 159-165: cve_id is copied only when vuln.get("cve_id") is truthy
VulnData(v) ==
    IF v.cve_id # ""
    THEN [description |-> v.description, cvss |-> v.cvss,
          is_vulnerable |-> v.is_vulnerable, cve_id |-> v.cve_id]
    ELSE [description |-> v.description, cvss |-> v.cvss,
          is_vulnerable |-> v.is_vulnerable]

RECURSIVE AddVulns(_, _, _, _, _)
AddVulns(g, service_data, vulns, i, surf) ==
    IF i > Len(vulns) THEN g
    ELSE AddVulns(Upsert(g, "Service", service_data,
                         "Vulnerability", VulnData(vulns[i]), surf),
                  service_data, vulns, i + 1, surf)

\* a variant that upserts the service of a port before the port itself
RECURSIVE AddPortsMutant(_, _, _, _, _)
AddPortsMutant(g, ip, ports, i, surf) ==
    IF i > Len(ports) THEN g
    ELSE LET port_data == ports[i]
             port_properties == [number |-> port_data.port,
                                 protocol |-> port_data.protocol,
                                 ip_address |-> ip]
             service_data == [name |-> port_data.service.name,
                              version |-> port_data.service.version]
             g1 == Upsert(g, "Port", port_properties,
                          "Service", service_data, surf)
             g2 == Upsert(g1, "IPAddress", [address |-> ip],
                          "Port", port_properties, surf)
             g3 == AddVulns(g2, service_data, port_data.vulnerabilities, 1, surf)
         IN  AddPortsMutant(g3, ip, ports, i + 1, surf)

RECURSIVE AddPorts(_, _, _, _, _)
AddPorts(g, ip, ports, i, surf) ==
    IF i > Len(ports) THEN g
    ELSE LET port_data == ports[i]
             port_properties == [number |-> port_data.port,
                                 protocol |-> port_data.protocol,
                                 ip_address |-> ip]
             service_data == [name |-> port_data.service.name,
                              version |-> port_data.service.version]
             g1 == Upsert(g, "IPAddress", [address |-> ip],
                          "Port", port_properties, surf)
             g2 == Upsert(g1, "Port", port_properties,
                          "Service", service_data, surf)
             g3 == AddVulns(g2, service_data, port_data.vulnerabilities, 1, surf)
         IN  AddPorts(g3, ip, ports, i + 1, surf)

\* a variant that undoes what the call has written when an upsert raises
add_entityMutant(g, scan_data, surf) ==
    LET g1 == IF scan_data.host # "" /\ scan_data.ip # ""
              THEN Upsert(g, "Host", [name |-> scan_data.host],
                          "IPAddress", [address |-> scan_data.ip], surf)
              ELSE g
        r == AddPorts(g1, scan_data.ip, scan_data.ports, 1, surf)
    IN  IF r.raised # "none" THEN [r EXCEPT !.nodes = g.nodes, !.edges = g.edges]
        ELSE r

add_entity(g, scan_data, surf) ==
    LET g1 == IF scan_data.host # "" /\ scan_data.ip # ""
              THEN Upsert(g, "Host", [name |-> scan_data.host],
                          "IPAddress", [address |-> scan_data.ip], surf)
              ELSE g
    IN  AddPorts(g1, scan_data.ip, scan_data.ports, 1, surf)

-----------------------------------------------------------------------------
(* threatmap.py: ThreatMap.get_kg_data                                     *)

\* a string property that is there and is not empty (IS NOT NULL, and truthy)
HasText(n, k) == k \in DOMAIN n.props /\ n.props[k] # ""

\* a numeric property that is there and is not 0
HasNumber(n, k) == k \in DOMAIN n.props /\ n.props[k] # 0

\* a variant that leaves a missing property empty
TextOrMutant(e, k, default) ==
    IF k \in DOMAIN e.props THEN e.props[k] ELSE ""

\* record[k] or default, for a text property of a relationship
TextOr(e, k, default) ==
    IF k \in DOMAIN e.props /\ e.props[k] # "" THEN e.props[k] ELSE default

\* the rows of the four queries that pass the checks of their loops
DescribedMutant(ns, es) ==
    {e \in es :
        \/ /\ e.type = "RESOLVES_TO"
           /\ ns[e.from].label = "Host" /\ ns[e.to].label = "IPAddress"
           /\ HasText(ns[e.from], "name") /\ HasText(ns[e.to], "address")
        \/ /\ e.type = "HOSTS"
           /\ ns[e.from].label = "IPAddress" /\ ns[e.to].label = "Port"
           /\ HasText(ns[e.from], "address") /\ HasNumber(ns[e.to], "number")
        \/ /\ e.type = "RUNS"
           /\ ns[e.from].label = "Port" /\ ns[e.to].label = "Service"
           /\ HasText(ns[e.to], "name") /\ HasText(ns[e.to], "version")}

Described(ns, es) ==
    {e \in es :
        \/ /\ e.type = "RESOLVES_TO"
           /\ ns[e.from].label = "Host" /\ ns[e.to].label = "IPAddress"
           /\ HasText(ns[e.from], "name") /\ HasText(ns[e.to], "address")
        \/ /\ e.type = "HOSTS"
           /\ ns[e.from].label = "IPAddress" /\ ns[e.to].label = "Port"
           /\ HasText(ns[e.from], "address") /\ HasNumber(ns[e.to], "number")
        \/ /\ e.type = "RUNS"
           /\ ns[e.from].label = "Port" /\ ns[e.to].label = "Service"
           /\ HasText(ns[e.to], "name") /\ HasText(ns[e.to], "version")
        \/ /\ e.type = "HAS_VULNERABILITY"
           /\ ns[e.from].label = "Service" /\ ns[e.to].label = "Vulnerability"
           /\ HasText(ns[e.from], "name") /\ "version" \in DOMAIN ns[e.from].props
           /\ HasText(ns[e.to], "description") /\ HasText(ns[e.to], "cve_id")}

\* the fields the line of a row names, in the order of its f-string
Description(ns, e) ==
    LET a == ns[e.from].props
        b == ns[e.to].props
    IN  CASE e.type = "RESOLVES_TO" ->
                <<"Host", a.name, "RESOLVES_TO IP address", b.address,
                  "type", TextOr(e, "resolution_type", "A"),
                  "last seen", e.props.last_seen>>
          [] e.type = "HOSTS" ->
                <<"IP", a.address, "HOSTS port", b.number,
                  IF HasText(ns[e.to], "protocol") THEN b.protocol ELSE "",
                  "status", TextOr(e, "status", "open")>>
          [] e.type = "RUNS" ->
                <<"Port", IF HasNumber(ns[e.from], "number") THEN a.number ELSE 0,
                  IF HasText(ns[e.from], "ip_address") THEN a.ip_address ELSE "",
                  "RUNS", b.name, "version", b.version,
                  "status", TextOr(e, "status", "running")>>
          [] OTHER ->
                <<"Service", a.name, "version", a.version,
                  "HAS_VULNERABILITY", b.cve_id, b.description,
                  "CVSS", IF HasNumber(ns[e.to], "cvss") THEN b.cvss ELSE 0,
                  "detected", TextOr(e, "detection_time", "unknown")>>

\* the rows of one query in the order the store returns them: the store scans
\* its relationships by their end nodes, and the same store gives the same order
RECURSIVE Rows(_, _)
Rows(ns, S) ==
    IF S = {} THEN <<>>
    ELSE LET key(e) == e.from * (Len(ns) + 1) + e.to
             first == CHOOSE e \in S : \A o \in S : key(e) <= key(o)
         IN  <<first>> \o Rows(ns, S \ {first})

\* a variant that runs the Service -> Vulnerability query first
DescriptionsMutant(ns, es) ==
    LET line(e) == [edge |-> e, text |-> Description(ns, e)]
        of(type) == Rows(ns, {e \in Described(ns, es) : e.type = type})
        all == of("HAS_VULNERABILITY") \o of("RESOLVES_TO") \o of("HOSTS")
               \o of("RUNS")
    IN  [i \in DOMAIN all |-> line(all[i])]

\* lines 173-259: the list descriptions after the four loops, a line per row
\* that passed the checks, the queries in the order of the code
Descriptions(ns, es) ==
    LET line(e) == [edge |-> e, text |-> Description(ns, e)]
        of(type) == Rows(ns, {e \in Described(ns, es) : e.type = type})
        all == of("RESOLVES_TO") \o of("HOSTS") \o of("RUNS")
               \o of("HAS_VULNERABILITY")
    IN  [i \in DOMAIN all |-> line(all[i])]

\* what a ThreatMap method returns: its kind, and for a text made of lines the
\* lines that "\n".join puts together
NoReturn == [kind |-> "None", lines |-> <<>>]
Sentinel == [kind |-> "No valid relationships found in the graph.", lines |-> <<>>]
ErrorText == [kind |-> "ERROR: Failed to retrieve graph data", lines |-> <<>>]
Success == [kind |-> "SUCCESS", lines |-> <<>>]

\* lines 172-267; fails: a statement of the session raised (store unreachable,
\* query failure).  The except clause of lines 261-262 turns that into a text.
get_kg_data(ns, es, fails) ==
    IF fails THEN ErrorText
    ELSE IF Descriptions(ns, es) = <<>> THEN Sentinel
    ELSE [kind |-> "lines", lines |-> Descriptions(ns, es)]

\* a variant whose statements delete what they have matched
AfterReadMutant(st) == [st EXCEPT !.edges = {}]

\* the statements of get_kg_data and verify_data are MATCH ... RETURN: the
\* store is after them what it was before
AfterRead(st) == st

\* self.threat_map.get_kg_data()
GetKgDataCall ==
    /\ \E fails \in BOOLEAN :
         LET st == AfterRead([nodes |-> nodes, edges |-> edges,
                              constraints |-> constraints, indexes |-> indexes])
         IN  /\ nodes' = st.nodes
             /\ edges' = st.edges
             /\ constraints' = st.constraints
             /\ indexes' = st.indexes
             /\ returned' = get_kg_data(st.nodes, st.edges, fails)
    /\ raised' = "none"
    /\ op' = "get_kg_data"
    /\ calls' = <<>>
    /\ repeated' = FALSE
    /\ UNCHANGED <<now, surfaces, work, last_rec, schema_mapping, budget, vocab>>
    /\ UNCHANGED suiteVars

\* lines 270-297: four MATCH statements; a failure is printed and raised
verify_data(st, fails) ==
    IF fails THEN [store |-> st, raised |-> "StoreError", returned |-> NoReturn]
    ELSE [store |-> AfterRead(st), raised |-> "none", returned |-> Success]

\* self.threat_map.verify_data()
VerifyDataCall ==
    /\ \E fails \in BOOLEAN :
         LET r == verify_data([nodes |-> nodes, edges |-> edges,
                               constraints |-> constraints, indexes |-> indexes],
                              fails)
         IN  /\ nodes' = r.store.nodes
             /\ edges' = r.store.edges
             /\ constraints' = r.store.constraints
             /\ indexes' = r.store.indexes
             /\ raised' = r.raised
             /\ returned' = r.returned
    /\ op' = "verify_data"
    /\ calls' = <<>>
    /\ repeated' = FALSE
    /\ UNCHANGED <<now, surfaces, work, last_rec, schema_mapping, budget, vocab>>
    /\ UNCHANGED suiteVars

-----------------------------------------------------------------------------
(* Scan records handed to add_entity (_template.py: ScanResult)            *)

MaxWork == 6    \* add_entity calls plus port and vulnerability entries, in total

Hosts == {"", "example.com"}
IPs == {"", "10.0.0.5"}
PortNumbers == {80}
Protocols == {"tcp", "udp"}
Services == {[name |-> "nginx", version |-> "1.21"]}
\* cvss in tenths; cve_id "" stands for a vulnerability without cve_id
Vulns == {[description |-> "outdated TLS config", cvss |-> 75,
           is_vulnerable |-> TRUE, cve_id |-> "CVE-2021-1234"],
          [description |-> "outdated TLS config", cvss |-> 90,
           is_vulnerable |-> TRUE, cve_id |-> "CVE-2021-1234"]}

RECURSIVE SeqsUpTo(_, _)
SeqsUpTo(S, n) ==
    IF n <= 0 THEN {<<>>}
    ELSE LET shorter == SeqsUpTo(S, n - 1)
         IN  shorter \cup {Append(q, x) : q \in shorter, x \in S}

\* port entries with exactly k entries in all (the port and its vulnerabilities)
PortEntries(k) ==
    {[port |-> n, protocol |-> p, service |-> s, vulnerabilities |-> vs] :
        n \in PortNumbers, p \in Protocols, s \in Services,
        vs \in {q \in SeqsUpTo(Vulns, k - 1) : Len(q) = k - 1}}

\* port lists with at most k entries in all
RECURSIVE PortLists(_)
PortLists(k) ==
    {<<>>} \cup
    UNION {{<<e>> \o rest : e \in PortEntries(j), rest \in PortLists(k - j)} :
              j \in 1..k}

\* what one add_entity call counts against MaxWork
Cost(rec) ==
    LET RECURSIVE Sum(_)
        Sum(i) == IF i > Len(rec.ports) THEN 0
                  ELSE 1 + Len(rec.ports[i].vulnerabilities) + Sum(i + 1)
    IN  1 + Sum(1)

ScanRecords(k) ==
    IF k < 1 THEN {}
    ELSE {[host |-> h, ip |-> a, ports |-> ps] :
             h \in Hosts, a \in IPs, ps \in PortLists(k - 1)}

\* the records that fit into a remaining budget of k, for every k
RecordsWithin == [k \in 0..MaxWork |-> ScanRecords(k)]

NoRecord == [host |-> "", ip |-> "", ports |-> <<>>]

MaxSummary == 3 \* work of the add_entity calls whose graph is then summarized

\* records of a normalizer that left fields empty: a service without a name, a
\* vulnerability without cve_id, a vulnerability without description
WideServices == Services \cup {[name |-> "", version |-> "1.21"]}
WideVulns == {[description |-> "outdated TLS config", cvss |-> 75,
               is_vulnerable |-> TRUE, cve_id |-> "CVE-2021-1234"],
              [description |-> "default credentials", cvss |-> 98,
               is_vulnerable |-> TRUE, cve_id |-> ""],
              [description |-> "", cvss |-> 50,
               is_vulnerable |-> TRUE, cve_id |-> "CVE-2020-0001"]}

WidePortEntries(k) ==
    {[port |-> n, protocol |-> "tcp", service |-> s, vulnerabilities |-> vs] :
        n \in PortNumbers, s \in WideServices,
        vs \in {q \in SeqsUpTo(WideVulns, k - 1) : Len(q) = k - 1}}

RECURSIVE WidePortLists(_)
WidePortLists(k) ==
    {<<>>} \cup
    UNION {{<<e>> \o rest : e \in WidePortEntries(j), rest \in WidePortLists(k - j)} :
              j \in 1..k}

WideScanRecords(k) ==
    IF k < 1 THEN {}
    ELSE {[host |-> h, ip |-> a, ports |-> ps] :
             h \in Hosts, a \in IPs \ {""}, ps \in WidePortLists(k - 1)}

WideRecordsWithin == [k \in 0..MaxSummary |-> WideScanRecords(k)]

\* self.threat_map.add_entity(scan_data)
AddEntity ==
    \E rec \in (IF vocab = "wide" THEN WideRecordsWithin
                ELSE RecordsWithin)[budget - work] :
        LET g == add_entity([nodes |-> nodes, edges |-> edges, now |-> now,
                             raised |-> "none", calls |-> <<>>,
                             schema |-> schema_mapping], rec, surfaces)
        IN  /\ nodes' = g.nodes
            /\ edges' = g.edges
            /\ now' = g.now
            /\ raised' = g.raised
            /\ calls' = g.calls
            /\ op' = "add_entity"
            /\ work' = work + Cost(rec)
            /\ last_rec' = rec
            /\ repeated' = (op = "add_entity" /\ rec = last_rec)
            /\ schema_mapping' = g.schema
            /\ returned' = NoReturn
            /\ UNCHANGED <<surfaces, constraints, indexes, budget, vocab>>
            /\ UNCHANGED suiteVars

-----------------------------------------------------------------------------
(* threatmap.py: ThreatMap.init_schema                                     *)

\* DROP CONSTRAINT <name> is sent with the name unquoted: it fails for a name
\* that is not a plain identifier, and line 64 passes over the failure
DropFails(name) == name = "legacy-key"

\* CREATE CONSTRAINT IF NOT EXISTS FOR (n:label) REQUIRE (props) IS UNIQUE;
\* the store names the constraint, the model names it after its label
CreateConstraint(cs, label, props) ==
    IF \E c \in cs : c.label = label /\ c.props = props THEN cs
    ELSE cs \cup {[name |-> label, label |-> label, props |-> props]}

RECURSIVE CreateConstraints(_, _)
CreateConstraints(cs, labels) ==
    IF labels = {} THEN cs
    ELSE LET label == CHOOSE l \in labels : TRUE
         IN  CreateConstraints(
                 IF Constraints(label) # {}
                 THEN CreateConstraint(cs, label, Constraints(label))
                 ELSE cs,
                 labels \ {label})

\* CREATE INDEX IF NOT EXISTS FOR ()-[r:rel_type]-() ON (r.prop)
CreateIndexMutant(ix, rel_type, prop) ==
    ix \cup {[id |-> Cardinality(ix) + 1, type |-> rel_type, prop |-> prop]}

CreateIndex(ix, rel_type, prop) ==
    IF \E i \in ix : i.type = rel_type /\ i.prop = prop THEN ix
    ELSE ix \cup {[id |-> Cardinality(ix) + 1, type |-> rel_type, prop |-> prop]}

\* lines 75-82: the (type, index_prop) pairs of the schema, each taken once
RelKeys ==
    UNION {{<<RelInfo(from, to).type, RelInfo(from, to).index_prop>> :
               to \in Relationships(from)} : from \in SchemaLabels}

RECURSIVE CreateIndexes(_, _)
CreateIndexes(ix, keys) ==
    IF keys = {} THEN ix
    ELSE LET rel_key == CHOOSE k \in keys : TRUE
         IN  CreateIndexes(CreateIndex(ix, rel_key[1], rel_key[2]), keys \ {rel_key})

\* st = [nodes, edges, constraints, indexes]: the store before the call
init_schema(st) ==
    [nodes |-> <<>>,
     edges |-> {},
     constraints |-> CreateConstraints({c \in st.constraints : DropFails(c.name)},
                                       SchemaLabels),
     indexes |-> CreateIndexes(st.indexes, RelKeys)]

\* what the store held before the ThreatMap was constructed
PriorStores ==
    {[nodes |-> <<>>, edges |-> {}, constraints |-> {}, indexes |-> {}],
     [nodes |-> <<[label |-> "Host", props |-> [name |-> "old.example.com"]]>>,
      edges |-> {},
      constraints |-> {[name |-> "legacy-key", label |-> "Asset", props |-> {"id"}],
                       [name |-> "port_number", label |-> "Port", props |-> {"number"}]},
      indexes |-> {[id |-> 1, type |-> "HOSTS", prop |-> "status"]}]}

\* self.init_schema(), called again on the constructed object
InitSchemaCall ==
    /\ work < budget
    /\ LET st == init_schema([nodes |-> nodes, edges |-> edges,
                              constraints |-> constraints, indexes |-> indexes])
       IN  /\ nodes' = st.nodes
           /\ edges' = st.edges
           /\ constraints' = st.constraints
           /\ indexes' = st.indexes
    /\ op' = "init_schema"
    /\ calls' = <<>>
    /\ raised' = "none"
    /\ repeated' = FALSE
    /\ work' = work + 1
    /\ returned' = NoReturn
    /\ UNCHANGED <<now, surfaces, last_rec, schema_mapping, budget, vocab>>
    /\ UNCHANGED suiteVars

-----------------------------------------------------------------------------
(* ThreatMap.create_relationship called on its own                         *)

MaxCalls == 2   \* work of the calls made on a ThreatMap of any schema
MaxIngest == 4  \* work of the add_entity calls whose upserts are followed one by one

\* the node properties a caller passes for a label; a caller of the wide
\* vocabulary also passes a Service without name and a Vulnerability without
\* description
PropsOf(label) ==
    CASE label = "Host" -> {[name |-> "example.com"]}
      [] label = "Domain" -> {[name |-> "example.com"]}
      [] label = "IPAddress" -> {[address |-> "10.0.0.5"]}
      [] label = "Port" ->
            IF vocab = "wide"
            THEN {[number |-> 80, protocol |-> "tcp", ip_address |-> "10.0.0.5"]}
            ELSE {[number |-> n, protocol |-> p, ip_address |-> "10.0.0.5"] :
                     n \in PortNumbers, p \in Protocols}
      [] label = "Service" ->
            IF vocab = "wide" THEN Services \cup {[version |-> "1.21"]}
            ELSE Services
      [] label = "Vulnerability" ->
            IF vocab = "wide"
            THEN {[cvss |-> 75, is_vulnerable |-> TRUE, cve_id |-> "CVE-2021-1234"]}
            ELSE {VulnData(v) : v \in Vulns}
      [] OTHER -> {[id |-> 1]}

\* label pairs a caller passes: declared by some schema, or by none
CallPairs ==
    {<<"Host", "IPAddress">>, <<"Domain", "IPAddress">>, <<"IPAddress", "Port">>,
     <<"Port", "Service">>, <<"Service", "Vulnerability">>,
     <<"Host", "Port">>, <<"Vulnerability", "Service">>, <<"Asset", "Port">>}

\* the properties argument; <<>> stands for None
CallerProps == {<<>>, [status |-> "filtered", created_at |-> 99]}

CreateRelationshipCall ==
    /\ work < budget
    /\ \E ft \in CallPairs, properties \in CallerProps :
         \E from_props \in PropsOf(ft[1]), to_props \in PropsOf(ft[2]) :
            LET g == create_relationship(
                         [nodes |-> nodes, edges |-> edges, now |-> now,
                          raised |-> "none", calls |-> <<>>,
                          schema |-> schema_mapping],
                         ft[1], from_props, ft[2], to_props, properties, surfaces)
            IN  /\ nodes' = g.nodes
                /\ edges' = g.edges
                /\ now' = g.now
                /\ raised' = g.raised
                /\ calls' = <<Call(ft[1], from_props, ft[2], to_props, properties)>>
                /\ schema_mapping' = g.schema
    /\ op' = "create_relationship"
    /\ repeated' = FALSE
    /\ work' = work + 1
    /\ returned' = NoReturn
    /\ UNCHANGED <<surfaces, last_rec, constraints, indexes, budget, vocab>>
    /\ UNCHANGED suiteVars

-----------------------------------------------------------------------------
(* head.py: ParserHead.head, and suite.py: Suite.run                       *)

\* head.py lines 274-354: the records the chain has parsed, or no record when
\* anything in the body raised (the except clause returns an empty result)
ParserHead_head(raises, records) == IF raises THEN <<>> ELSE records

\* suite.py lines 276-277: verify_data after an add_entity call that returned,
\* when debugging; it raises when its statements fail
Verified(g, debugging, fails) ==
    [g EXCEPT !.raised = IF @ = "none" /\ debugging
                         THEN verify_data(<<>>, fails).raised
                         ELSE @]

\* suite.py lines 272-277: add_entity for each parsed record; an exception ends
\* the loop
RECURSIVE IngestAll(_, _, _, _, _, _)
IngestAll(g, records, i, surf, debugging, fails) ==
    IF i > Len(records) \/ g.raised # "none" THEN g
    ELSE IngestAll(Verified(add_entity(g, records[i], surf), debugging, fails),
                   records, i + 1, surf, debugging, fails)

\* the aggregates a finished workflow may hand back, with the tools it ran:
\* configured ones
Finished ==
    {s \in InputStates : /\ s.has_used
                         /\ s.current = "supervisor"
                         /\ Range(s.used_tools) \subseteq Range(list_of_tools)}

\* results the workflow of suite() may come to once it has its first state
WorkflowResults == {"finish", "tool_error"}

\* records the chain of ParserHead may make of an aggregate
Parsed == {<<>>} \cup {<<rec>> : rec \in ScanRecords(1)}

\* suite.py lines 265-281: what run() does with the state suite() returned;
\* g is the store after the loop over the parsed records
RunEnd(final, records, g, fails) ==
    /\ new_state' = MkState(final.results, final.used_tools, "FINISH", "FINISH")
    /\ nodes' = g.nodes
    /\ edges' = g.edges
    /\ now' = g.now
    /\ calls' = g.calls
    /\ schema_mapping' = g.schema
    /\ raised' = g.raised
    /\ work' = work + Len(records)
    /\ repeated' = FALSE
    /\ run_log' = <<"suite", "parser.head">>
                    \o [i \in 1..Len(records) |-> "add_entity"]
                    \o (IF g.raised = "none" THEN <<"get_kg_data">> ELSE <<>>)
    /\ returned' = IF g.raised = "none" THEN get_kg_data(g.nodes, g.edges, fails)
                   ELSE NoReturn
    /\ pc' = IF g.raised = "none" THEN "returned" ELSE "raised"
    /\ err' = g.raised
    /\ op' = IF g.raised = "none" THEN "get_kg_data" ELSE "add_entity"
    /\ UNCHANGED <<surfaces, last_rec, constraints, indexes, budget, vocab>>

\* suite.py lines 254-281: suite(), parser.head on its aggregate, add_entity
\* for each parsed record, get_kg_data.  suite() builds its first AgentState
\* before anything else and leaves with the exception of that.
RunCall ==
    /\ pc = "idle"
    /\ entry' = "run"
    /\ \E final \in Finished :
       \E raises \in BOOLEAN, debugging \in BOOLEAN, fails \in BOOLEAN,
          wf \in WorkflowResults, parsed \in Parsed :
         /\ parser_raises' = raises
         /\ IF ~AgentStateInit(StateKwargs) \/ wf = "tool_error"
            THEN /\ pc' = "raised"
                 /\ err' = IF ~AgentStateInit(StateKwargs) THEN "TypeError"
                           ELSE "ToolError"
                 /\ run_log' = <<"suite">>
                 /\ UNCHANGED new_state
                 /\ UNCHANGED mapVars
            ELSE RunEnd(final, ParserHead_head(raises, parsed),
                        IngestAll([nodes |-> nodes, edges |-> edges, now |-> now,
                                   raised |-> "none", calls |-> <<>>,
                                   schema |-> schema_mapping],
                                  ParserHead_head(raises, parsed), 1, surfaces,
                                  debugging, fails),
                        fails)
    /\ UNCHANGED <<list_of_tools, state, tool_res, rag, pol_raises, pol_ret,
                   tool_calls, pol_calls, used_tools, new_results, next_tool>>

-----------------------------------------------------------------------------
\* the state ThreatMap.__init__ leaves: load_schema has read the schema file
\* and init_schema has run on the store as it was
InitThreatMap ==
    /\ schema_mapping \in Schemas \cup {BareSchema}
    /\ \E prior \in PriorStores :
          LET st == init_schema(prior)
          IN  /\ nodes = st.nodes
              /\ edges = st.edges
              /\ constraints = st.constraints
              /\ indexes = st.indexes
    /\ now = 0
    /\ surfaces \in BOOLEAN
    /\ budget \in {MaxWork, MaxCalls, MaxIngest, MaxSummary}
    /\ work = 0
    /\ last_rec = NoRecord
    /\ repeated = FALSE
    /\ raised = "none"
    /\ op = "none"
    /\ calls = <<>>
    /\ returned = NoReturn
    /\ vocab \in {"plain", "wide"}

-----------------------------------------------------------------------------
InitSuite ==
    /\ list_of_tools \in {Append(tl, "FINISH") : tl \in ToolLists}
    /\ pc = "idle"
    /\ entry = "none"
    /\ state = NoInput
    /\ tool_res = "not_run"
    /\ rag = TRUE
    /\ pol_raises = FALSE
    /\ pol_ret = "none"
    /\ tool_calls = 0
    /\ pol_calls = 0
    /\ used_tools = <<>>
    /\ new_results = <<>>
    /\ next_tool = "none"
    /\ err = "none"
    /\ new_state = NoState
    /\ parser_raises = FALSE
    /\ run_log = <<>>

NextSuite == SupervisorCall \/ SuiteCall \/ RunCall

NextThreatMap == AddEntity

NextStore ==
    \/ InitSchemaCall
    \/ CreateRelationshipCall
    \/ AddEntity
    \/ GetKgDataCall
    \/ VerifyDataCall

Init == InitSuite /\ InitThreatMap

Next == NextSuite \/ NextStore

\* the whole program
Spec == Init /\ [][Next]_vars

\* one Suite object; its ThreatMap is left alone
\* the ThreatMap of the repository's schema on a store that was empty
Plain ==
    /\ schema_mapping = FullSchema
    /\ \A c \in constraints : ~DropFails(c.name)
    /\ budget = MaxWork
    /\ vocab = "plain"

InitSuiteOnly == Init /\ surfaces = TRUE /\ Plain

SpecSuite == InitSuiteOnly /\ [][NextSuite]_vars

\* one ThreatMap object; the Suite that owns it is left alone
InitMap == Init /\ list_of_tools = <<"FINISH">> /\ Plain

SpecThreatMap == InitMap /\ [][NextThreatMap]_vars

\* the same ThreatMap object, given less work
InitIngest ==
    /\ Init
    /\ list_of_tools = <<"FINISH">>
    /\ schema_mapping = FullSchema
    /\ \A c \in constraints : ~DropFails(c.name)
    /\ budget = MaxIngest
    /\ vocab = "plain"

SpecIngest == InitIngest /\ [][NextThreatMap]_vars

\* one ThreatMap object of any schema, every method of it called
InitStore ==
    /\ Init
    /\ list_of_tools = <<"FINISH">>
    /\ schema_mapping \in Schemas
    /\ budget = MaxCalls
    /\ vocab = "plain"

SpecStore == InitStore /\ [][NextStore]_vars

\* a ThreatMap object whose callers ingest records and read the graph back; the
\* records may have fields left empty, the schema may have no default properties
InitSummary ==
    /\ Init
    /\ list_of_tools = <<"FINISH">>
    /\ schema_mapping \in {FullSchema, BareSchema}
    /\ \A c \in constraints : ~DropFails(c.name)
    /\ surfaces = TRUE
    /\ budget = MaxSummary
    /\ vocab = "wide"

NextSummary ==
    \/ AddEntity
    \/ CreateRelationshipCall
    \/ GetKgDataCall
    \/ VerifyDataCall

SpecSummary == InitSummary /\ [][NextSummary]_vars

-----------------------------------------------------------------------------
(* Properties of the Suite part                                            *)

\* the call has ended, by a return or by an exception
Over == pc \in {"returned", "raised"}

\* the step ran its tool to the end and went on to the selection
Selected == entry = "supervisor" /\ pol_calls = 1

\* the selection call failed: it raised, or named no configured tool, or a used one
PolicyFailed ==
    \/ pol_raises
    \/ pol_ret \notin Range(list_of_tools)
    \/ pol_ret \in Range(used_tools)

\* The selection part alone: the value it leaves in next_tool is "FINISH" when
\* the selection call failed, and when it named the tool the step has just run.
SelectionCoercesToFinish ==
    (Selected /\ (PolicyFailed \/ (state.current # "supervisor" /\ pol_ret = state.current)))
        => next_tool = "FINISH"

\* C1: a run of suite() whose tool executions all succeed ends with
\* current = "FINISH" after at most N+1 supervisor evaluations, N the number of
\* configured tools (list_of_tools holds them and "FINISH").
C1_RunReachesFinish ==
    (entry = "suite" /\ Over /\ err # "ToolError")
        => /\ pc = "returned"
           /\ new_state.made
           /\ new_state.current = "FINISH"
           /\ pol_calls <= Len(list_of_tools)

\* C2: the tool a supervisor step selects as the next current is never one of
\* used_tools (which by then holds the tool the step has just run), and a state
\* the step returns never has its current among its used_tools.
C2_NoRepeat ==
    /\ Selected => next_tool \notin Range(used_tools)
    /\ new_state.made => new_state.current \notin Range(new_state.used_tools)

\* C2 witness: the selection call returned a configured tool that is already
\* used, and the step turned it into FINISH.
C2_Witness ==
    /\ Selected
    /\ ~pol_raises
    /\ pol_ret \in Range(list_of_tools)
    /\ pol_ret \in Range(used_tools)
    /\ pol_ret # state.current
    /\ next_tool = "FINISH"

\* C3: a supervisor step that has just run tool T and whose selection call
\* returns T produces a state with current = next = "FINISH", in the
\* retrieval-backed branch and in the direct branch.
C3_SelfLoopGuard ==
    (Selected /\ Over /\ state.current # "supervisor" /\ ~pol_raises
        /\ pol_ret = state.current)
        => /\ pc = "returned"
           /\ new_state.made
           /\ new_state.current = "FINISH"
           /\ new_state.next = "FINISH"

\* C4: when the selection call fails, the supervisor step completes normally
\* with next = "FINISH" and keeps the aggregate and used_tools of its first part.
C4_PolicyFailureNotFatal ==
    (Selected /\ Over /\ PolicyFailed)
        => /\ pc = "returned"
           /\ new_state.made
           /\ new_state.next = "FINISH"
           /\ new_state.used_tools = used_tools
           /\ new_state.results = new_results

\* C5: when running the current tool fails, the step raises that failure to its
\* caller: the tool was invoked once, the selection call was not made, no state
\* was produced, nothing was added to used_tools or to the aggregate, and
\* nothing is FINISH.
C5_ToolFailureFatal ==
    (entry = "supervisor" /\ tool_res = "head_fails")
        => /\ pc = "raised"
           /\ err = "ToolError"
           /\ tool_calls = 1
           /\ pol_calls = 0
           /\ ~new_state.made
           /\ used_tools = <<>>
           /\ new_results = <<>>
           /\ next_tool # "FINISH"

\* C5 witness: a step whose tool run failed, on a state that carries used_tools.
C5_Witness ==
    /\ entry = "supervisor"
    /\ tool_res = "head_fails"
    /\ state.has_used
    /\ state.used_tools # <<>>
    /\ pc = "raised"

\* C6: suite() seeds the run with a state whose current and next are
\* "supervisor" and whose aggregate and used_tools are empty.
C6_RunSeeded ==
    (entry = "suite" /\ pc # "idle")
        => /\ err = "none"
           /\ new_state.made
           /\ new_state.current = "supervisor"
           /\ new_state.next = "supervisor"
           /\ new_state.results = <<>>
           /\ new_state.used_tools = <<>>

\* C26: every supervisor step whose tool run did not fail produces a state whose
\* current equals its next and is a configured tool or "FINISH", whose
\* used_tools is the input's with the tool just run appended (unchanged when
\* the input's current was "supervisor"), and whose aggregate is the input's
\* with that tool's output appended.
C26_StepStateInvariant ==
    (entry = "supervisor" /\ Over /\ tool_res # "head_fails" /\ tool_res # "rag_fails")
        => /\ new_state.made
           /\ new_state.current = new_state.next
           /\ new_state.current \in Range(list_of_tools)
           /\ new_state.used_tools = UsedAfter(state)
           /\ new_state.results =
                 (IF state.current # "supervisor"
                  THEN Append(state.results, Output(state.current))
                  ELSE state.results)

C23_ParserFailureRecovered ==
    (entry = "run" /\ Over /\ parser_raises /\ err # "ToolError"
        /\ returned # ErrorText)
        => /\ pc = "returned"
           /\ new_state.made
           /\ run_log = <<"suite", "parser.head", "get_kg_data">>
           /\ calls = <<>>
           /\ nodes = <<>>
           /\ edges = {}
           /\ returned = Sentinel

-----------------------------------------------------------------------------
(* Properties of the ThreatMap part                                        *)

SameEdge(e, f) == e.type = f.type /\ e.from = f.from /\ e.to = f.to

\* the relationships of the store that the upserts of a record address
MapsTo(rec, ns, e) ==
    \/ /\ rec.host # "" /\ rec.ip # ""
       /\ e.type = "RESOLVES_TO"
       /\ Matches(ns[e.from], "Host", [name |-> rec.host])
       /\ Matches(ns[e.to], "IPAddress", [address |-> rec.ip])
    \/ \E i \in DOMAIN rec.ports :
          LET p == rec.ports[i]
              pp == [number |-> p.port, protocol |-> p.protocol, ip_address |-> rec.ip]
              sd == [name |-> p.service.name, version |-> p.service.version]
          IN  \/ /\ e.type = "HOSTS"
                 /\ Matches(ns[e.from], "IPAddress", [address |-> rec.ip])
                 /\ Matches(ns[e.to], "Port", [number |-> p.port])
              \/ /\ e.type = "RUNS"
                 /\ Matches(ns[e.from], "Port", pp)
                 /\ Matches(ns[e.to], "Service", sd)
              \/ \E j \in DOMAIN p.vulnerabilities :
                    /\ e.type = "HAS_VULNERABILITY"
                    /\ Matches(ns[e.from], "Service", sd)
                    /\ Matches(ns[e.to], "Vulnerability", VulnData(p.vulnerabilities[j]))

\* C7: an add_entity call with the record of the call before it leaves the
\* number of nodes and the number of relationships as they were.
C7_IdempotentCounts ==
    [][repeated' =>
          /\ Len(nodes') = Len(nodes)
          /\ Cardinality(edges') = Cardinality(edges)]_vars

\* C7 witness: a repeated call on a graph that holds all four relationship types.
C7_Witness ==
    /\ repeated
    /\ \A ty \in {"RESOLVES_TO", "HOSTS", "RUNS", "HAS_VULNERABILITY"} :
          \E e \in edges : e.type = ty

\* C8: an add_entity call with the record of the call before it advances
\* last_seen on every relationship the record maps to, of every type.
C8_LastSeenAdvances ==
    [][repeated' =>
          \A e \in edges, f \in edges' :
              (SameEdge(e, f) /\ MapsTo(last_rec', nodes', f))
                  => f.props.last_seen > e.props.last_seen]_vars

\* C9: created_at of a relationship never changes once the relationship exists,
\* and a relationship that a call creates carries the time of that call.
C9_CreatedAtKept ==
    [][/\ \A e \in edges, f \in edges' :
              SameEdge(e, f) => f.props.created_at = e.props.created_at
       /\ \A f \in edges' :
              (\A e \in edges : ~SameEdge(e, f))
                  => (f.props.created_at >= now /\ f.props.created_at < now')]_vars

\* C9 witness: a relationship that a later upsert has matched.
C9_Witness ==
    \E e \in edges : e.props.last_seen > e.props.created_at

\* the natural key of a node: the properties that identify it
NaturalKey(n) ==
    CASE n.label = "Host" -> {"name"}
      [] n.label = "IPAddress" -> {"address"}
      [] n.label = "Port" -> {"ip_address", "number"}
      [] n.label = "Service" -> {"name", "version"}
      [] OTHER -> {"description", "cve_id"}

SameKey(m, n) ==
    /\ m.label = n.label
    /\ NaturalKey(m) \subseteq DOMAIN m.props
    /\ NaturalKey(n) \subseteq DOMAIN n.props
    /\ \A k \in NaturalKey(m) : m.props[k] = n.props[k]

\* C10: the graph never holds two nodes of one label with the same natural key;
\* in particular at most one Port node per owning ip and port number.
C10_UniqueNaturalKey ==
    \A i, j \in Ids(nodes) : SameKey(nodes[i], nodes[j]) => i = j

-----------------------------------------------------------------------------
(* Properties of single upserts within a call                              *)

\* a ThreatMap call has just been made
Called == work' > work

\* the graph after the first k create_relationship calls of the latest call
RECURSIVE Replay(_, _)
Replay(cs, k) ==
    IF k = 0
    THEN [nodes |-> nodes, edges |-> edges, now |-> now, raised |-> "none",
          calls |-> <<>>, schema |-> schema_mapping]
    ELSE create_relationship(Replay(cs, k - 1), cs[k].from_type, cs[k].from_props,
                             cs[k].to_type, cs[k].to_props, cs[k].properties,
                             surfaces)

Undeclared(c) ==
    c.from_type \notin SchemaLabels \/ c.to_type \notin Relationships(c.from_type)

\* the upserts of a record, in the order the specification of ingest gives
ExpectedVulns(sd, vulns) ==
    [j \in DOMAIN vulns |->
        Call("Service", sd, "Vulnerability", VulnData(vulns[j]), <<>>)]

RECURSIVE ExpectedPorts(_, _)
ExpectedPorts(rec, i) ==
    IF i > Len(rec.ports) THEN <<>>
    ELSE LET p == rec.ports[i]
             pp == [number |-> p.port, protocol |-> p.protocol, ip_address |-> rec.ip]
             sd == [name |-> p.service.name, version |-> p.service.version]
         IN  <<Call("IPAddress", [address |-> rec.ip], "Port", pp, <<>>),
               Call("Port", pp, "Service", sd, <<>>)>>
             \o ExpectedVulns(sd, p.vulnerabilities)
             \o ExpectedPorts(rec, i + 1)

ExpectedCalls(rec) ==
    (IF rec.host # "" /\ rec.ip # ""
     THEN <<Call("Host", [name |-> rec.host], "IPAddress", [address |-> rec.ip], <<>>)>>
     ELSE <<>>)
    \o ExpectedPorts(rec, 1)

EdgeBetween(ns, es, type, from_label, from_props, to_label, to_props) ==
    \E e \in es :
        /\ e.type = type
        /\ Matches(ns[e.from], from_label, from_props)
        /\ Matches(ns[e.to], to_label, to_props)

\* C11: add_entity of a record with host "" and an ip, on a graph that holds
\* nothing, creates no RESOLVES_TO relationship and creates, for every port,
\* its HOSTS and its RUNS relationship and one HAS_VULNERABILITY relationship
\* per vulnerability.
C11_EmptyHostKeepsPortEdges ==
    [][(op' = "add_entity" /\ Called /\ nodes = <<>> /\ raised' = "none"
            /\ last_rec'.host = "" /\ last_rec'.ip # "")
        => /\ \A e \in edges' : e.type # "RESOLVES_TO"
           /\ \A i \in DOMAIN last_rec'.ports :
                 LET p == last_rec'.ports[i]
                     pp == [number |-> p.port, protocol |-> p.protocol,
                            ip_address |-> last_rec'.ip]
                     sd == [name |-> p.service.name, version |-> p.service.version]
                 IN  /\ EdgeBetween(nodes', edges', "HOSTS", "IPAddress",
                                    [address |-> last_rec'.ip], "Port", pp)
                     /\ EdgeBetween(nodes', edges', "RUNS", "Port", pp, "Service", sd)
                     /\ \A j \in DOMAIN p.vulnerabilities :
                           EdgeBetween(nodes', edges', "HAS_VULNERABILITY",
                                       "Service", sd, "Vulnerability",
                                       [description |-> p.vulnerabilities[j].description])]_vars

\* C12: a create_relationship call for a label pair the schema does not declare
\* raises ValueError and leaves nodes and relationships as they were before it.
C12_UndeclaredPairRejected ==
    [][Called =>
          \A k \in DOMAIN calls' :
              Undeclared(calls'[k]) =>
                  /\ k = Len(calls')
                  /\ raised' = "ValueError"
                  /\ nodes' = Replay(calls', k - 1).nodes
                  /\ edges' = Replay(calls', k - 1).edges]_vars

\* C12 witness: a rejected call on a graph that holds nodes, for a from label
\* the schema has and a target that label does not declare.
C12_Witness ==
    /\ op = "create_relationship"
    /\ raised = "ValueError"
    /\ calls[1].from_type \in SchemaLabels
    /\ nodes # <<>>

\* C13: when a create_relationship call of add_entity raises ValueError, the
\* remaining upserts of the record are still made.
C13_SiblingsStillAttempted ==
    [][(op' = "add_entity" /\ Called /\ raised' = "ValueError")
          => calls' = ExpectedCalls(last_rec')]_vars

\* C14: when an upsert of an add_entity call raises, the graph holds exactly
\* what the upserts before it have written: every node of the graph before
\* the call is still there and every relationship still exists.
C14_NoRollback ==
    [][(op' = "add_entity" /\ Called /\ raised' # "none")
          => /\ nodes' = Replay(calls', Len(calls') - 1).nodes
             /\ edges' = Replay(calls', Len(calls') - 1).edges
             /\ Len(nodes') >= Len(nodes)
             /\ \A i \in Ids(nodes) : nodes'[i].label = nodes[i].label
             /\ \A e \in edges : \E f \in edges' : SameEdge(e, f)]_vars

\* C14 witness: a call that raised after an earlier upsert of the same call had
\* created a relationship.
C14_Witness ==
    /\ op = "add_entity"
    /\ raised # "none"
    /\ \E e \in edges : e.props.created_at >= now - Len(calls)

\* C15: init_schema leaves no node and no relationship, one uniqueness
\* constraint for every label whose constraints entry is not empty and one
\* index for every (type, index_prop) of the schema; called on a store that
\* init_schema has set up before, it leaves the constraints and the indexes
\* as they were.
C15_InitSchemaIdempotent ==
    [][(op' = "init_schema" /\ Called)
          => /\ nodes' = <<>>
             /\ edges' = {}
             /\ \A label \in SchemaLabels :
                   Constraints(label) # {} =>
                       Cardinality({c \in constraints' :
                                       c.label = label /\ c.props = Constraints(label)}) = 1
             /\ \A from \in SchemaLabels :
                   \A to \in Relationships(from) :
                       Cardinality({i \in indexes' :
                                       /\ i.type = RelInfo(from, to).type
                                       /\ i.prop = RelInfo(from, to).index_prop}) = 1
             /\ constraints' = constraints
             /\ indexes' = indexes]_vars

\* C15 witness: init_schema called again after an upsert had run, under the
\* schema in which two labels share a relationship type, on a store that
\* keeps a constraint it could not drop.
C15_Witness ==
    /\ op = "init_schema"
    /\ now > 0
    /\ schema_mapping = DomainSchema
    /\ \E c \in constraints : DropFails(c.name)

\* the record of the end-to-end example
ExampleRecord ==
    [host |-> "example.com", ip |-> "10.0.0.5",
     ports |-> <<[port |-> 80, protocol |-> "tcp",
                  service |-> [name |-> "nginx", version |-> "1.21"],
                  vulnerabilities |-> <<CHOOSE v \in Vulns : v.cvss = 75>>]>>]

\* C16: add_entity of the example record on a graph that holds nothing leaves
\* four relationships, one of each type, and get_kg_data then returns four
\* lines, one for each of them.
C16_ExampleFourEdgesFourLines ==
    [][(op' = "add_entity" /\ Called /\ nodes = <<>> /\ last_rec' = ExampleRecord)
          => /\ Cardinality(edges') = 4
             /\ \A ty \in {"RESOLVES_TO", "HOSTS", "RUNS", "HAS_VULNERABILITY"} :
                   Cardinality({e \in edges' : e.type = ty}) = 1
             /\ LET lines == get_kg_data(nodes', edges', FALSE).lines
                IN  /\ Len(lines) = 4
                    /\ {lines[i].edge : i \in DOMAIN lines} = edges'
                    /\ \E i \in DOMAIN lines :
                          lines[i].text[6] = "CVE-2021-1234"]_vars

\* C16 witness: the example record was the first record the graph was given.
C16_Witness ==
    /\ op = "add_entity"
    /\ last_rec = ExampleRecord
    /\ work = Cost(ExampleRecord)
    /\ Len(get_kg_data(nodes, edges, FALSE).lines) = 4

\* C17: an upsert of a Vulnerability whose description and cve_id the graph
\* already holds with another cvss does not fail and leaves the node with the
\* properties of the upsert: after the last upsert of an add_entity call, the
\* Vulnerability it named is in the graph with exactly the properties given.
C17_NonKeyPropertiesOverwritten ==
    [][(op' = "add_entity" /\ Called /\ calls' # <<>>)
          => LET c == calls'[Len(calls')]
             IN  c.to_type = "Vulnerability" =>
                     /\ raised' = "none"
                     /\ \E i \in Ids(nodes') :
                           nodes'[i] = [label |-> "Vulnerability", props |-> c.to_props]]_vars

\* C18: an IPAddress to Port upsert that finds a Port of its number under its
\* IPAddress node creates neither node nor relationship, writes the
\* properties of the upsert over those of that Port and sets last_seen of the
\* HOSTS relationship to the time of the upsert, created_at staying.
C18_MatchedPortOverwritten ==
    [][(op' = "add_entity" /\ Called)
          => \A k \in DOMAIN calls' :
                LET c == calls'[k]
                    b == Replay(calls', k - 1)
                    a == Replay(calls', k)
                    hit == {e \in b.edges :
                               /\ e.type = "HOSTS"
                               /\ Matches(b.nodes[e.from], "IPAddress", c.from_props)
                               /\ Matches(b.nodes[e.to], "Port",
                                          [number |-> c.to_props.number])}
                IN  (c.to_type = "Port" /\ hit # {})
                        => /\ Len(a.nodes) = Len(b.nodes)
                           /\ Cardinality(a.edges) = Cardinality(b.edges)
                           /\ \A e \in hit :
                                 /\ a.nodes[e.to].props = c.to_props
                                 /\ \E f \in a.edges :
                                       /\ SameEdge(e, f)
                                       /\ f.props.last_seen = b.now
                                       /\ f.props.last_seen > e.props.last_seen
                                       /\ f.props.created_at = e.props.created_at]_vars

\* C18 witness: one call upserted port 80 of one ip twice, with two protocols;
\* the graph holds one Port node, with the later protocol, and its HOSTS
\* relationship was seen after it was created.
C18_Witness ==
    /\ op = "add_entity"
    /\ \E j, k \in DOMAIN calls :
          /\ j < k
          /\ calls[j].to_type = "Port" /\ calls[k].to_type = "Port"
          /\ calls[j].to_props.protocol # calls[k].to_props.protocol
          /\ \A m \in DOMAIN calls : (m > k) => calls[m].to_type # "Port"
          /\ \E e \in edges :
                /\ e.type = "HOSTS"
                /\ e.props.last_seen > e.props.created_at
                /\ nodes[e.to].props = calls[k].to_props
    /\ Cardinality({i \in Ids(nodes) : nodes[i].label = "Port"}) = 1

\* C19: a relationship that a create_relationship call creates carries the
\* default properties of the schema, with the properties of the caller
\* written over them, and created_at and last_seen of the time of the call
\* written over both.
C19_EdgePropsLayered ==
    [][(op' = "create_relationship" /\ Called /\ raised' = "none")
          => \A f \in edges' :
                (\A e \in edges : ~SameEdge(e, f)) =>
                    LET c == calls'[1]
                        d == RelInfo(c.from_type, c.to_type).default_props
                        stamps == {"created_at", "last_seen"}
                    IN  /\ DOMAIN f.props = DOMAIN d \cup DOMAIN c.properties \cup stamps
                        /\ \A k \in stamps : f.props[k] = now
                        /\ \A k \in DOMAIN c.properties \ stamps :
                              f.props[k] = c.properties[k]
                        /\ \A k \in DOMAIN d \ (DOMAIN c.properties \cup stamps) :
                              f.props[k] = d[k]]_vars

\* C19 witness: a relationship whose type has a default status, created by a
\* caller that passed another status and a created_at of its own.
C19_Witness ==
    /\ op = "create_relationship"
    /\ calls[1].properties # <<>>
    /\ \E e \in edges :
          /\ e.type \in {"HOSTS", "RUNS"}
          /\ e.props.status = "filtered"
          /\ e.props.created_at = now - 1

\* C20: the create_relationship calls of an add_entity call are the upserts of
\* its record in their order: Host to IPAddress first when host and ip are
\* not empty, then port by port IPAddress to Port, Port to Service and the
\* Service to Vulnerability upserts; all of them when none raises, and the
\* ones up to the raising one otherwise.
C20_UpsertOrder ==
    [][(op' = "add_entity" /\ Called)
          => /\ Len(calls') <= Len(ExpectedCalls(last_rec'))
             /\ calls' = SubSeq(ExpectedCalls(last_rec'), 1, Len(calls'))
             /\ raised' = "none" => calls' = ExpectedCalls(last_rec')]_vars

\* C20 witness: a call for a record with host, ip and two ports, the first
\* with a vulnerability, that made all its six upserts.
C20_Witness ==
    /\ op = "add_entity"
    /\ raised = "none"
    /\ Len(last_rec.ports) = 2
    /\ Len(calls) = 6
    /\ calls[1].from_type = "Host"
    /\ calls[4].to_type = "Vulnerability"

-----------------------------------------------------------------------------
(* Properties of get_kg_data and verify_data                               *)

\* the latest call was get_kg_data and its statements ran
Summarized == op = "get_kg_data" /\ returned # ErrorText

\* the text the latest call returned has a line for relationship e
Rendered(e) == \E i \in DOMAIN returned.lines : returned.lines[i].edge = e

\* a text property that is null (Neo4j keeps no null: the node lacks it) or empty
Lacks(n, k) == k \notin DOMAIN n.props \/ n.props[k] = ""

\* a required property of an end node of e is missing: host name or ip address
\* for RESOLVES_TO, ip address or port number for HOSTS, service name or
\* version for RUNS and HAS_VULNERABILITY, and the description of the
\* vulnerability
RequiredMissing(e) ==
    LET a == nodes[e.from]
        b == nodes[e.to]
    IN  CASE e.type = "RESOLVES_TO" -> Lacks(a, "name") \/ Lacks(b, "address")
          [] e.type = "HOSTS" ->
                Lacks(a, "address") \/ "number" \notin DOMAIN b.props \/ b.props.number = 0
          [] e.type = "RUNS" -> Lacks(b, "name") \/ Lacks(b, "version")
          [] e.type = "HAS_VULNERABILITY" ->
                \/ Lacks(a, "name")
                \/ "version" \notin DOMAIN a.props
                \/ Lacks(b, "description")
          [] OTHER -> TRUE

\* the line of e shows value for its optional field, at position pos of the line
Shows(e, pos, value) ==
    \A i \in DOMAIN returned.lines :
        returned.lines[i].edge = e => returned.lines[i].text[pos] = value

Valid(e) ==
    /\ ~RequiredMissing(e)
    /\ e.type = "HAS_VULNERABILITY" => ~Lacks(nodes[e.to], "cve_id")

\* the position of a relationship type in the text
Rank(type) ==
    CASE type = "RESOLVES_TO" -> 1
      [] type = "HOSTS" -> 2
      [] type = "RUNS" -> 3
      [] OTHER -> 4

\* C22: when its statements ran, get_kg_data returns either the text "No valid
\* relationships found in the graph." or lines joined by newlines; the lines
\* are one for every valid relationship and no other, Host -> IP lines before
\* IP -> Port lines before Port -> Service lines before Service ->
\* Vulnerability lines; and the fixed text is returned exactly when there is
\* no line.
C22_OneLinePerEdgeInOrder ==
    Summarized =>
        LET lines == returned.lines
        IN  /\ returned.kind \in {"lines", Sentinel.kind}
            /\ \A e \in edges :
                  Cardinality({i \in DOMAIN lines : lines[i].edge = e})
                      = (IF Valid(e) THEN 1 ELSE 0)
            /\ \A i \in DOMAIN lines : lines[i].edge \in edges
            /\ \A i, j \in DOMAIN lines :
                  i < j => Rank(lines[i].edge.type) <= Rank(lines[j].edge.type)
            /\ (returned = Sentinel) = (\A e \in edges : ~Valid(e))
            /\ (returned = Sentinel) = (lines = <<>>)

\* C22 witness: a text of four lines, one of each relationship type, in the
\* order of the queries.
C22_Witness ==
    /\ Summarized
    /\ Len(returned.lines) = 4
    /\ returned.lines[1].edge.type = "RESOLVES_TO"
    /\ returned.lines[2].edge.type = "HOSTS"
    /\ returned.lines[3].edge.type = "RUNS"
    /\ returned.lines[4].edge.type = "HAS_VULNERABILITY"

\* C24: a ThreatMap call whose statements failed ends with an exception: what
\* get_kg_data returns to its caller is the text of the graph or the fixed text
\* for an empty one, and verify_data returns only when its statements ran.
C24_StoreFailureSurfaced ==
    /\ (op = "get_kg_data" /\ raised = "none")
          => returned.kind \in {"lines", Sentinel.kind}
    /\ (op = "verify_data" /\ raised = "none") => returned = Success

\* C25: no call of create_relationship, add_entity, get_kg_data, verify_data or
\* init_schema changes schema_mapping.
C25_SchemaImmutable == [][schema_mapping' = schema_mapping]_vars

\* C25 witness: create_relationship was called with properties of the caller
\* and made a relationship whose status is the caller's, while the schema
\* still has the default status of that relationship.
C25_Witness ==
    /\ op = "create_relationship"
    /\ raised = "none"
    /\ calls[1].properties # <<>>
    /\ calls[1].from_type = "Port"
    /\ \E e \in edges : e.type = "RUNS" /\ e.props.status = "filtered"
    /\ schema_mapping["Port"].relationships["Service"].default_props
          = [status |-> "running"]

C30_EveryVulnerabilityRendered ==
    Summarized =>
        \A e \in edges :
            (e.type = "HAS_VULNERABILITY" /\ ~RequiredMissing(e)) => Rendered(e)

====
